---- MODULE Spec2Model ----
(***************************************************************************)
(* Model of renterc (cmd/renterc/objects.go): contract selection           *)
(* (getUsableContracts), the upload job (uploadFiles) and the download job *)
(* (downloadFile), together with the collaborators they call through       *)
(* renterdClient.                                                          *)
(*                                                                         *)
(* Heights are block heights.  rhp.SectorSize (4 MiB) and the uint64 range *)
(* are scaled down so that TLC's 32-bit integers can hold them; the scaled *)
(* values are named below.                                                 *)
(***************************************************************************)
EXTENDS Integers, Sequences, FiniteSets, TLC

\* ------------------------------------------------------------------ bounds
NumContracts == 2

\* the input files of an upload job, and the bytes in a file
MaxFiles == 2
MaxFileLen == 2

\* the iterations of the slab loop the model follows
MaxLoops == MaxFiles * MaxFileLen + 1

\* ------------------------------------------------- program constants, sets
\* uint64(contract.Revision.NewWindowStart)-144 is computed modulo 2^64; the
\* model computes it modulo 2^30, far above every height it uses.
UintMod == 2^30
ProofWindowMargin == 144

Hosts == {"h1", "h2", "h3"}
Heights == {50, 100, 150, 151}
EndHeights == {100, 400}
WindowStarts == {100, 294, 295}
FundValues == {0, 1}
\* what renterdClient.Host returns: an error, or the host's announcements
AnnouncementLists == {<<>>, <<"a1", "a2">>}
HostOutcomes ==
    {[ok |-> FALSE, ann |-> <<>>]}
    \cup {[ok |-> TRUE, ann |-> a] : a \in AnnouncementLists}

ContractIds == 1..NumContracts

\* host of the contract with the given id in the selection model
HostOf(id) == IF id % 3 = 1 THEN "h1" ELSE IF id % 3 = 2 THEN "h2" ELSE "h3"

VARIABLES
    contracts,  \* the contract directory: sequence of contract records
    height,     \* the chain height reported by ConsensusTip
    store,      \* the object store: object key -> the object's slab slices
    outFile,    \* the download's destination file: [exists, bytes]
    calls,      \* the collaborator and file-system calls made, in order
    sel,        \* outcome of the last getUsableContracts call
    dl,         \* the download job (downloadFile)
    up,         \* the upload job's main task (uploadFiles)
    prod,       \* the upload job's producer task (the go func of line 219)
    pipe,       \* the io.Pipe between them: [buf, closed]
    form        \* the contract formation job (formCmd)

vars == <<contracts, height, store, outFile, calls, sel, dl, up, prod, pipe,
          form>>

\* the state of the upload job
upload == <<up, prod, pipe>>

\* ----------------------------------------------------------- pure helpers
Last(s) == s[Len(s)]

Range(s) == {s[i] : i \in 1..Len(s)}

\* all orderings of the elements of s (frand.Shuffle); the variant that
\* leaves the order alone is used to test claims
NoShuffle(s) == {s}
Shuffles(s) ==
    {[i \in 1..Len(s) |-> s[p[i]]] :
        p \in {q \in [1..Len(s) -> 1..Len(s)] :
                 \A i, j \in 1..Len(s) : i # j => q[i] # q[j]}}

\* a - b in unsigned arithmetic; the variant that stops at 0 is used to
\* test claims
SubSaturating(a, b) == IF a >= b THEN a - b ELSE 0
SubU64(a, b) == (a - b + UintMod) % UintMod

\* tip.Height > contract.EndHeight()
Expired(c, h) == h > c.endHeight

\* tip.Height >= uint64(NewWindowStart)-144 || NewValidProofOutputs[0].Value.IsZero()
Skipped(c, h) ==
    \/ h >= SubU64(c.windowStart, ProofWindowMargin)
    \/ c.funds = 0

\* a contract that passes both tests of the filter
PassesFilter(c, h) == ~Expired(c, h) /\ ~Skipped(c, h)

\* line 146: renterdClient.DeleteContract(contract.ID()) as a statement:
\* what it returned (ok or not) is dropped; the variant that gives up on a
\* failed delete is used to test claims
DeleteFailureAborts(acc, ok) ==
    IF ok THEN acc ELSE [acc EXCEPT !.status = "err_delete"]
DeleteIgnored(acc, ok) == acc

\* the loop of getUsableContracts over the listed contracts: cs is the part
\* of the listing not yet visited, hostRes the outcome of renterdClient.Host
\* for each contract id, delOk the ids whose delete succeeds, acc the loop's
\* state
RECURSIVE ScanContracts(_, _, _, _, _)
ScanContracts(cs, h, hostRes, delOk, acc) ==
    IF cs = <<>> \/ acc.status # "scanned" THEN acc
    ELSE LET c == Head(cs) IN
         IF Expired(c, h)
         THEN ScanContracts(Tail(cs), h, hostRes, delOk,
                  DeleteIgnored([acc EXCEPT !.deletes = Append(@, c.id)],
                                c.id \in delOk))
         ELSE IF Skipped(c, h)
         THEN ScanContracts(Tail(cs), h, hostRes, delOk, acc)
         ELSE LET accL == [acc EXCEPT !.lookups = Append(@, c.host)] IN
              IF ~hostRes[c.id].ok
              THEN [accL EXCEPT !.status = "err_host"]
              ELSE IF hostRes[c.id].ann = <<>>
              THEN [accL EXCEPT !.status = "panic"]
              ELSE ScanContracts(Tail(cs), h, hostRes, delOk,
                       [accL EXCEPT !.usable = Append(@,
                           [id |-> c.id, host |-> c.host,
                            ip |-> Last(hostRes[c.id].ann)])])

ScanStart == [status |-> "scanned", usable |-> <<>>, deletes |-> <<>>,
              lookups |-> <<>>]

\* the directory after the deletes that succeeded
AfterDeletes(cs, deletes, delOk) ==
    SelectSeq(cs, LAMBDA c : ~(c.id \in Range(deletes) /\ c.id \in delOk))

\* len(usable) < required, with the off-by-one variants used to test claims
TooFewOrEqual(usable, required) == Len(usable) <= required
TooFewByTwo(usable, required) == Len(usable) + 1 < required
TooFew(usable, required) == Len(usable) < required

\* sel records the directory and height the call ran against (listing, h),
\* its argument, the outcome of each host lookup (hostRes), the deletes and
\* lookups it issued, the deletes that succeeded (delOk) and what it
\* returned (status, list)
NoSel == [status |-> "none", list |-> <<>>, deletes |-> <<>>,
          lookups |-> <<>>, h |-> 0, required |-> 0, listing |-> <<>>,
          hostRes |-> <<>>, delOk |-> {}]

\* ------------------------------------------------- getUsableContracts
\* getUsableContracts(renterPriv, required) against the listing cs at height
\* h: the value returned, with the collaborator calls it made
ScanOutcomes(cs, h, required, delOk, hostRes) ==
    LET scan == ScanContracts(cs, h, hostRes, delOk, ScanStart)
        base == [status |-> scan.status, list |-> <<>>,
                 deletes |-> scan.deletes, lookups |-> scan.lookups,
                 h |-> h, required |-> required, listing |-> cs,
                 hostRes |-> hostRes,
                 delOk |-> delOk \cap Range(scan.deletes)]
    IN  IF scan.status # "scanned" THEN {base}
        ELSE IF TooFew(scan.usable, required)
        THEN {[base EXCEPT !.status = "err_count"]}
        ELSE {[base EXCEPT !.status = "ok", !.list = l] :
                  l \in Shuffles(scan.usable)}

\* the same for every outcome of the listing, the height query and the host
\* lookups
SelectOutcomes(cs, h, required, delOk) ==
    {[NoSel EXCEPT !.status = st, !.required = required, !.listing = cs,
                   !.h = h] : st \in {"err_contracts", "err_tip"}}
    \cup
    UNION {ScanOutcomes(cs, h, required, delOk, hostRes)
           : hostRes \in [{c.id : c \in Range(cs)} -> HostOutcomes]}

Deletable(cs, h) == {c.id : c \in {x \in Range(cs) : Expired(x, h)}}

\* a run of getUsableContracts as an operation of its own
GetUsableContracts ==
    /\ sel.status = "none"
    /\ UNCHANGED <<store, outFile, calls, dl, upload, form>>
    /\ \E required \in 0..(NumContracts + 1) :
       \E delOk \in SUBSET Deletable(contracts, height) :
       \E out \in SelectOutcomes(contracts, height, required, delOk) :
          /\ sel' = out
          /\ contracts' = AfterDeletes(contracts, out.deletes, delOk)
    /\ UNCHANGED height

\* ------------------------------------------------------------ downloadFile
\* one call made through renterdClient or the os package
Call(op, n, str) == [op |-> op, n |-> n, s |-> str]

CallsOf(op) == SelectSeq(calls, LAMBDA c : c.op = op)

\* uint8 counter of a slab's resolvable shards
Uint8Mod == 256

\* index named by an error message that names none
NoIndex == -1

Algos == {"sha256", "sha1", "md5"}

\* strings.ToLower on the algorithm names the model uses
ToLower(a) == IF a = "SHA256" THEN "sha256" ELSE a

\* the digest of a byte sequence under an algorithm (collision free)
Digest(algo, bytes) == <<ToLower(algo), bytes>>

\* lines 317-322: the download's own copy of the liveness tests; the
\* variant that removes nothing is used to test claims
DlNeverExpired(c, h) == FALSE
DlExpired(c, h) == h > c.endHeight

\* lines 320-321; the variant without the proof-window test is used to test
\* claims
DlSkippedFundsOnly(c, h) == c.funds = 0
DlSkipped(c, h) ==
    \/ h >= SubU64(c.windowStart, ProofWindowMargin)
    \/ c.funds = 0

\* line 318: renterdClient.DeleteContract(c.ID()) as a statement: what it
\* returned is dropped
DlDeleteIgnored(acc, ok) == acc

\* lines 313-325: hostContracts and the deletes issued while building it;
\* delOk are the ids whose delete succeeds
RECURSIVE BuildHostContracts(_, _, _, _)
BuildHostContracts(cs, h, delOk, acc) ==
    IF cs = <<>> \/ acc.status # "built" THEN acc
    ELSE LET c == Head(cs) IN
         IF DlExpired(c, h)
         THEN BuildHostContracts(Tail(cs), h, delOk,
                  DlDeleteIgnored([acc EXCEPT !.deletes = Append(@, c.id)],
                                  c.id \in delOk))
         ELSE IF DlSkipped(c, h)
         THEN BuildHostContracts(Tail(cs), h, delOk, acc)
         ELSE BuildHostContracts(Tail(cs), h, delOk,
                  [acc EXCEPT !.map =
                      [x \in DOMAIN acc.map \cup {c.host} |->
                          IF x = c.host THEN c.id ELSE acc.map[x]]])

\* line 353: added[shard.Host] = true, with the variant that forgets the
\* host, used to test claims
MarkNothing(added, host) == added
MarkAdded(added, host) == added \cup {host}

BuildStart == [status |-> "built", map |-> <<>>, deletes |-> <<>>]

\* the contracts of the listing whose delete the download can ask for
DlDeletable(cs, h) == {c.id : c \in {x \in Range(cs) : DlExpired(x, h)}}

\* lines 333-356: the shards of one slab; acc carries the plan, the hosts
\* added, the lookups made, the slab's count and the status
RECURSIVE ResolveShards(_, _, _, _)
ResolveShards(shards, hc, hostRes, acc) ==
    IF shards = <<>> THEN acc
    ELSE LET host == Head(shards) IN
         IF host \notin DOMAIN hc
         THEN ResolveShards(Tail(shards), hc, hostRes, acc)
         ELSE IF host \in acc.added
         THEN ResolveShards(Tail(shards), hc, hostRes,
                  [acc EXCEPT !.count = (@ + 1) % Uint8Mod])
         ELSE LET accL == [acc EXCEPT !.lookups = Append(@, host)] IN
              IF ~hostRes[host].ok
              THEN [accL EXCEPT !.status = "err_host"]
              ELSE IF hostRes[host].ann = <<>>
              THEN [accL EXCEPT !.status = "panic"]
              ELSE ResolveShards(Tail(shards), hc, hostRes,
                       [accL EXCEPT
                           !.plan = Append(@, [id |-> hc[host], host |-> host,
                                               ip |-> Last(hostRes[host].ann)]),
                           !.added = MarkAdded(@, host),
                           !.count = (@ + 1) % Uint8Mod])

\* count < slab.MinShards, with the variant used to test claims
TooFewShardsTotal(count, slice) == Len(slice.slab.shards) < slice.slab.minShards
TooFewShards(count, slice) == count < slice.slab.minShards

\* line 359: the slab index the error "not enough contracts available to
\* download file" names when slab i fell short: the message has no index
ShardsErrorIndex(i) == NoIndex

\* lines 331-363: the slabs of the object from index i (0-based) on
RECURSIVE ResolveSlabs(_, _, _, _, _)
ResolveSlabs(slabs, i, hc, hostRes, acc) ==
    IF i >= Len(slabs) THEN acc
    ELSE LET r == ResolveShards(slabs[i + 1].slab.shards, hc, hostRes,
                                [acc EXCEPT !.count = 0]) IN
         IF r.status # "resolving" THEN r
         ELSE IF TooFewShards(r.count, slabs[i + 1])
         THEN [r EXCEPT !.status = "err_shards", !.failedSlab = i]
         ELSE ResolveSlabs(slabs, i + 1, hc, hostRes,
                  [r EXCEPT !.fileLength = @ + slabs[i + 1].length])

ResolveStart == [status |-> "resolving", plan |-> <<>>, added |-> {},
                 lookups |-> <<>>, count |-> 0, failedSlab |-> NoIndex,
                 fileLength |-> 0]

NoFile == [exists |-> FALSE, bytes |-> <<>>]

NoDownload == [pc |-> "idle", key |-> "", dryRun |-> FALSE, algo |-> "",
               obj |-> <<>>, plan |-> <<>>, docs |-> <<>>, next |-> 0,
               hashed |-> <<>>, result |-> "none", errSlab |-> NoIndex,
               checksum |-> <<>>, listing |-> <<>>, h |-> 0,
               hostRes |-> <<>>, failedSlab |-> NoIndex, live |-> <<>>,
               deletes |-> <<>>, delOk |-> {}]

Keys == {"a", "b"}

\* the hashAlgo flag values the model tries: two known names, one of them
\* in upper case, and an unknown one
AlgoFlags == {"sha256", "md5", "crc32"}
UploadAlgoFlags == {"SHA256", "crc32"}

\* the bytes a slice stands for
SliceBytes(sl) == SubSeq(sl.slab.data, sl.offset + 1, sl.offset + sl.length)

\* the calls of lines 298-356 in the order they are made
ResolveCalls(key, deletes, lookups) ==
    <<Call("Object", 0, key), Call("Contracts", 0, ""),
      Call("ConsensusTip", 0, "")>>
    \o [i \in 1..Len(deletes) |-> Call("DeleteContract", deletes[i], "")]
    \o [i \in 1..Len(lookups) |-> Call("Host", 0, lookups[i])]

\* the hosts of the object's shards
ShardHosts(obj) == UNION {Range(obj[i].slab.shards) : i \in 1..Len(obj)}

\* lines 298-363: fetch the object, the contracts and the height, build
\* hostContracts and resolve every slab's shards
\* lines 341-342, 358-360: downloadFile returns when the resolution of the
\* shards failed and goes on to its output when it did not; the variant
\* that goes on in any case is used to test claims
GoesOnAnyway(status) == "resolved"
AfterResolve(status) == IF status = "resolving" THEN "resolved" ELSE "done"

DownloadStart ==
    /\ dl.pc = "idle"
    /\ UNCHANGED <<height, store, outFile, sel, upload, form>>
    /\ \E key \in Keys : \E dry \in BOOLEAN :
       LET begun == [dl EXCEPT !.pc = "done", !.key = key, !.dryRun = dry,
                               !.listing = contracts, !.h = height] IN
       \/ /\ dl' = [begun EXCEPT !.result = "err_object"]
          /\ calls' = Append(calls, Call("Object", 0, key))
          /\ UNCHANGED contracts
       \/ /\ key \in DOMAIN store
          /\ dl' = [begun EXCEPT !.result = "err_contracts"]
          /\ calls' = calls \o <<Call("Object", 0, key),
                                 Call("Contracts", 0, "")>>
          /\ UNCHANGED contracts
       \/ /\ key \in DOMAIN store
          /\ dl' = [begun EXCEPT !.result = "err_tip"]
          /\ calls' = calls \o ResolveCalls(key, <<>>, <<>>)
          /\ UNCHANGED contracts
       \/ /\ key \in DOMAIN store
          /\ \E delOk \in SUBSET DlDeletable(contracts, height) :
             LET obj == store[key]
                 hc == BuildHostContracts(contracts, height, delOk,
                                          BuildStart)
             IN \E hostRes \in [DOMAIN hc.map \cap ShardHosts(obj)
                                   -> HostOutcomes] :
                LET r == IF hc.status = "built"
                         THEN ResolveSlabs(obj, 0, hc.map, hostRes,
                                           ResolveStart)
                         ELSE [ResolveStart EXCEPT !.status = hc.status] IN
                /\ dl' = [begun EXCEPT
                       !.pc = AfterResolve(r.status),
                       !.obj = obj, !.hostRes = hostRes, !.plan = r.plan,
                       !.live = hc.map, !.deletes = hc.deletes,
                       !.delOk = delOk \cap Range(hc.deletes),
                       !.failedSlab = r.failedSlab,
                       !.errSlab = IF r.status = "err_shards"
                                   THEN ShardsErrorIndex(r.failedSlab)
                                   ELSE NoIndex,
                       !.result = IF r.status = "resolving" THEN "none"
                                  ELSE r.status]
                /\ calls' = calls \o ResolveCalls(key, hc.deletes, r.lookups)
                /\ contracts' = AfterDeletes(contracts, hc.deletes, delOk)

\* lines 366-374: one request document per slab, in slab order; the variant
\* that prints only the last slab's request is used to test claims
DryRunDocsLastOnly(obj, plan) ==
    IF obj = <<>> THEN <<>>
    ELSE <<[slab |-> obj[Len(obj)], contracts |-> plan]>>
DryRunDocs(obj, plan) ==
    [i \in 1..Len(obj) |-> [slab |-> obj[i], contracts |-> plan]]

\* lines 365-396: the dry run's request documents, or the destination file
\* and the hasher
DownloadOutput ==
    /\ dl.pc = "resolved"
    /\ UNCHANGED <<contracts, height, store, sel, upload, form>>
    /\ \/ /\ dl.dryRun
          /\ dl' = [dl EXCEPT !.pc = "done", !.result = "ok",
                       !.docs = DryRunDocs(dl.obj, dl.plan)]
          /\ UNCHANGED <<outFile, calls>>
       \/ /\ ~dl.dryRun
          /\ dl' = [dl EXCEPT !.pc = "done", !.result = "err_create"]
          /\ calls' = Append(calls, Call("Create", 0, "out"))
          /\ UNCHANGED outFile
       \/ /\ ~dl.dryRun
          /\ calls' = Append(calls, Call("Create", 0, "out"))
          /\ outFile' = [exists |-> TRUE, bytes |-> <<>>]
          /\ \E algo \in AlgoFlags :
                dl' = IF ToLower(algo) \in Algos
                      THEN [dl EXCEPT !.pc = "stream", !.algo = algo]
                      ELSE [dl EXCEPT !.pc = "done", !.algo = algo,
                                      !.result = "err_hash"]

\* line 396: io.MultiWriter(f, h) hands the hasher every block the file has
\* taken; the variant that hands it nothing is used to test claims
TeeNothing(hashed, data) == hashed
Tee(hashed, data) == hashed \o data

\* lines 398-402: one iteration of the slab loop; a failed transfer may have
\* written part of the slab, and a failed file write leaves the digest behind
DownloadSlabStep ==
    /\ dl.pc = "stream"
    /\ dl.next < Len(dl.obj)
    /\ UNCHANGED <<contracts, height, store, sel, upload, form>>
    /\ calls' = Append(calls, Call("DownloadSlab", dl.next, ""))
    /\ LET data == SliceBytes(dl.obj[dl.next + 1]) IN
       \/ /\ outFile' = [outFile EXCEPT !.bytes = @ \o data]
          /\ dl' = [dl EXCEPT !.hashed = Tee(@, data), !.next = @ + 1]
       \/ \E kf \in 0..Len(data) : \E kd \in 0..kf :
          /\ kd < Len(data)
          /\ outFile' = [outFile EXCEPT !.bytes = @ \o SubSeq(data, 1, kf)]
          /\ dl' = [dl EXCEPT !.hashed = Tee(@, SubSeq(data, 1, kd)),
                              !.pc = "done", !.result = "err_download",
                              !.errSlab = dl.next]

\* lines 403-406: sync the file and return the digest
DownloadFinish ==
    /\ dl.pc = "stream"
    /\ dl.next = Len(dl.obj)
    /\ UNCHANGED <<contracts, height, store, outFile, sel, upload, form>>
    /\ calls' = Append(calls, Call("Sync", 0, "out"))
    /\ \/ dl' = [dl EXCEPT !.pc = "done", !.result = "err_sync"]
       \/ dl' = [dl EXCEPT !.pc = "done", !.result = "ok",
                           !.checksum = Digest(dl.algo, dl.hashed)]

DownloadFile ==
    DownloadStart \/ DownloadOutput \/ DownloadSlabStep \/ DownloadFinish

\* ------------------------------------------------------------- uploadFiles
\* rhp.SectorSize (4 MiB) and the buffer io.Copy writes from (32 KiB), scaled
SectorSize == 2
CopyChunk == 2

\* an input path is <<directory, base name>>; filepath.Base, with the
\* variant that takes the directory, used to test claims
DirName(path) == path[1]
Base(path) == path[2]

\* the bytes of the i-th input file: byte p of file i is <<i, p>>
FileBytes(files, i) == [p \in 1..files[i].len |-> <<i, p>>]

RECURSIVE SumSeq(_)
SumSeq(s) == IF s = <<>> THEN 0 ELSE Head(s) + SumSeq(Tail(s))

Min(a, b) == IF a < b THEN a ELSE b
Max(a, b) == IF a > b THEN a ELSE b

NoUpload == [pc |-> "idle", files |-> <<>>, m |-> 0, n |-> 0, algo |-> "",
             contracts |-> <<>>, tip |-> 0, total |-> 0, rem |-> 0, i |-> 0,
             size |-> 0, cur |-> <<>>, windows |-> <<>>, slabs |-> <<>>,
             objs |-> <<>>, addIdx |-> 0, adds |-> <<>>, result |-> "none",
             errIdx |-> NoIndex, selH |-> 0, lingers |-> FALSE]

NoProducer == [pc |-> "off", file |-> 0, pos |-> 0, hashed |-> <<>>,
               lengths |-> <<>>, checksums |-> <<>>, written |-> 0,
               opens |-> 0]

NoPipe == [buf |-> <<>>, closed |-> FALSE]

\* the job ended: uploadFiles returned, or the process panicked
UploadEnds(result) == [up EXCEPT !.pc = "done", !.result = result]

\* lines 178-182: stat every input; bad is the index (1-based) of the first
\* file whose stat fails, 0 if none does. The calls made by the loop, with the
\* variant that lists the contracts first, used to test claims
StatCallsAfterListing(files, bad) ==
    <<Call("Contracts", 0, "")>>
    \o [i \in 1..(IF bad = 0 THEN Len(files) ELSE bad) |-> Call("Stat", i, "")]
StatCalls(files, bad) ==
    [i \in 1..(IF bad = 0 THEN Len(files) ELSE bad) |-> Call("Stat", i, "")]

UploadStat ==
    /\ up.pc = "start"
    /\ UNCHANGED <<contracts, height, store, outFile, sel, dl, prod, pipe, form>>
    /\ \E bad \in 0..Len(up.files) :
          /\ calls' = calls \o StatCalls(up.files, bad)
          /\ up' = IF bad = 0 THEN [up EXCEPT !.pc = "select"]
                   ELSE [UploadEnds("err_stat") EXCEPT !.errIdx = bad - 1]

\* the calls getUsableContracts made, in order
SelectCalls(out) ==
    IF out.status = "err_contracts" THEN <<Call("Contracts", 0, "")>>
    ELSE <<Call("Contracts", 0, ""), Call("ConsensusTip", 0, "")>>
         \o [i \in 1..Len(out.deletes) |->
                Call("DeleteContract", out.deletes[i], "")]
         \o [i \in 1..Len(out.lookups) |-> Call("Host", 0, out.lookups[i])]

\* lines 185-188: getUsableContracts(renterPriv, int(totalShards))
UploadSelect ==
    /\ up.pc = "select"
    /\ UNCHANGED <<height, store, outFile, dl, prod, pipe, form>>
    /\ \E delOk \in SUBSET Deletable(contracts, height) :
       \E out \in SelectOutcomes(contracts, height, up.n, delOk) :
          /\ sel' = out
          /\ contracts' = AfterDeletes(contracts, out.deletes, delOk)
          /\ calls' = calls \o SelectCalls(out)
          /\ up' = IF out.status = "ok"
                   THEN [up EXCEPT !.pc = "prepare", !.contracts = out.list,
                                   !.selH = out.h]
                   ELSE IF out.status = "panic" THEN UploadEnds("panic")
                   ELSE UploadEnds("err_select")

\* lines 190-253: the hasher, the total upload length, the pipe and the start
\* of the producer task
UploadPrepare ==
    /\ up.pc = "prepare"
    /\ UNCHANGED <<contracts, height, store, outFile, sel, dl, pipe, form>>
    /\ \E algo \in UploadAlgoFlags :
       IF ToLower(algo) \notin Algos
       THEN /\ up' = [UploadEnds("err_hash") EXCEPT !.algo = algo]
            /\ UNCHANGED <<calls, prod>>
       ELSE \E bad \in 0..Len(up.files) :
            /\ calls' = calls \o StatCalls(up.files, bad)
            /\ IF bad # 0
               THEN /\ up' = [UploadEnds("err_stat2") EXCEPT !.algo = algo,
                                  !.errIdx = bad - 1]
                    /\ UNCHANGED prod
               ELSE /\ up' = [up EXCEPT !.pc = "tip", !.algo = algo,
                                 !.total = SumSeq([i \in 1..Len(up.files) |->
                                                     up.files[i].len])]
                    /\ prod' = [prod EXCEPT !.pc = "open", !.file = 1]

\* ---- the producer task (lines 219-253); a panic in it ends the process.
\* The task runs until the process ends: uploadCmd ends the process when
\* uploadFiles has returned (lines 77-80), at once when up.lingers is false
\* and not within the behaviour when it is true
ProducerRuns ==
    /\ prod.pc \notin {"off", "finished"}
    /\ up.pc # "done" \/ (up.lingers /\ up.result # "panic")

\* line 224: h.Reset(), with the variant that keeps the state, used to test
\* claims
HashKept(hashed) == hashed
HashReset(hashed) == <<>>

\* lines 224-231: reset the hasher and open the next file
ProdOpen ==
    /\ ProducerRuns /\ prod.pc = "open"
    /\ UNCHANGED <<contracts, height, store, outFile, calls, sel, dl, pipe, form>>
    /\ \/ /\ prod' = [prod EXCEPT !.pc = "copy", !.pos = 0,
                                  !.hashed = HashReset(@), !.opens = @ + 1]
          /\ UNCHANGED up
       \/ /\ up' = UploadEnds("panic")
          /\ prod' = [prod EXCEPT !.opens = @ + 1]

\* line 218: io.Pipe has no buffer: a Write returns only when the reader
\* has taken all of its bytes, so the writer moves on only when nothing is
\* pending; the variant in which a write never waits is used to test claims
WriteNeverWaits(p) == TRUE
WriteReturned(p) == p.buf = <<>>

\* lines 234-235: io.Copy reads the next chunk through the TeeReader, which
\* feeds the hasher, and writes it to the pipe; the write returns once the
\* consumer has taken all of it
ProdWrite ==
    /\ ProducerRuns /\ prod.pc = "copy"
    /\ WriteReturned(pipe)
    /\ prod.pos < up.files[prod.file].len
    /\ UNCHANGED <<contracts, height, store, outFile, calls, sel, dl, up, form>>
    /\ LET to == Min(prod.pos + CopyChunk, up.files[prod.file].len)
           chunk == SubSeq(FileBytes(up.files, prod.file), prod.pos + 1, to)
       IN /\ prod' = [prod EXCEPT !.pos = to, !.hashed = @ \o chunk,
                                  !.written = @ + Len(chunk)]
          /\ pipe' = [pipe EXCEPT !.buf = @ \o chunk]

\* line 240: int(n), the bytes io.Copy copied from this file, not the
\* position reached in the packed stream
CopiedLength(copied, streamPos) == copied

\* line 240: lengths = append(lengths, int(n)), once io.Copy has returned
ProdLength ==
    /\ ProducerRuns /\ prod.pc = "copy"
    /\ WriteReturned(pipe)
    /\ prod.pos = up.files[prod.file].len
    /\ UNCHANGED <<contracts, height, store, outFile, calls, sel, dl, up, pipe, form>>
    /\ prod' = [prod EXCEPT !.pc = "sum",
                   !.lengths = Append(@, CopiedLength(prod.pos, prod.written))]

\* lines 241-248: checksums = append(checksums, h.Sum(nil)); next file
ProdSum ==
    /\ ProducerRuns /\ prod.pc = "sum"
    /\ UNCHANGED <<contracts, height, store, outFile, calls, sel, dl, up, pipe, form>>
    /\ prod' = [prod EXCEPT
           !.checksums = Append(@, Digest(up.algo, prod.hashed)),
           !.pc = IF prod.file = Len(up.files) THEN "close" ELSE "open",
           !.file = IF prod.file = Len(up.files) THEN @ ELSE @ + 1]

\* lines 251-252: wg.Wait(); w.Close()
ProdClose ==
    /\ ProducerRuns /\ prod.pc = "close"
    /\ UNCHANGED <<contracts, height, store, outFile, calls, sel, dl, up, form>>
    /\ prod' = [prod EXCEPT !.pc = "finished"]
    /\ pipe' = [pipe EXCEPT !.closed = TRUE]

Producer == ProdOpen \/ ProdWrite \/ ProdLength \/ ProdSum \/ ProdClose

\* ---- the main task from line 255 on
\* lines 256-259
UploadTip ==
    /\ up.pc = "tip"
    /\ UNCHANGED <<contracts, height, store, outFile, sel, dl, prod, pipe, form>>
    /\ calls' = Append(calls, Call("ConsensusTip", 0, ""))
    /\ \/ up' = UploadEnds("err_tip")
       \/ up' = [up EXCEPT !.pc = "loop", !.tip = height, !.rem = up.total,
                           !.i = 0]

\* line 264
MaxSlabSize(m) == m * SectorSize

\* lines 267-272: the length of the next upload window; the variant that
\* always takes a whole slab is used to test claims
WholeSlab(rem, maxSlabSize) == maxSlabSize
UploadSize(rem, maxSlabSize) == IF rem > maxSlabSize THEN maxSlabSize ELSE rem

\* the model records the first MaxLoops iterations of the slab loop (their
\* windows, slabs and calls, and the index i): more than a loop that consumes
\* at least one byte per iteration can make. Later iterations run the same
\* steps and leave the record as it is
Recorded(u) == u.i < MaxLoops

\* lines 266-273: the loop test and the window of the next slab
UploadLoop ==
    /\ up.pc = "loop"
    /\ UNCHANGED <<contracts, height, store, outFile, calls, sel, dl, prod, pipe, form>>
    /\ up' = IF up.rem > 0
             THEN LET size == UploadSize(up.rem, MaxSlabSize(up.m)) IN
                  [up EXCEPT !.pc = "read", !.size = size, !.cur = <<>>,
                             !.windows = IF Recorded(up) THEN Append(@, size)
                                         ELSE @]
             ELSE [up EXCEPT !.pc = "split"]

\* line 274: UploadSlab reads from the LimitReader, which takes what the
\* pending write offers, up to the window
UploadRead ==
    /\ up.pc = "read"
    /\ Len(up.cur) < up.size
    /\ pipe.buf # <<>>
    /\ UNCHANGED <<contracts, height, store, outFile, calls, sel, dl, prod, form>>
    /\ LET k == Min(Len(pipe.buf), up.size - Len(up.cur)) IN
       /\ up' = [up EXCEPT !.cur = @ \o SubSeq(pipe.buf, 1, k)]
       /\ pipe' = [pipe EXCEPT !.buf = SubSeq(@, k + 1, Len(@))]

\* lines 275-277: what a failed slab upload leaves; the variant that goes on
\* with the next slab is used to test claims
SlabFailureSkips(u) ==
    [u EXCEPT !.pc = "loop", !.i = @ + 1, !.rem = @ - MaxSlabSize(u.m)]
SlabFailureAborts(u) ==
    [u EXCEPT !.pc = "done", !.result = "err_upload", !.errIdx = u.i]

\* the slab the transport returns for the window's bytes: its n shards are
\* on the hosts of the first n contracts handed to it
UploadedSlab(u) ==
    [minShards |-> u.m,
     shards |-> [j \in 1..u.n |-> u.contracts[j].host],
     data |-> u.cur]

\* lines 274-278, 266: the slab upload returns; it may fail at any point of
\* its reading
UploadSlabReturns ==
    /\ up.pc = "read"
    /\ UNCHANGED <<contracts, height, store, outFile, sel, dl, prod, pipe, form>>
    /\ \/ /\ calls' = IF Recorded(up)
                      THEN Append(calls, Call("UploadSlab", up.i, "err"))
                      ELSE calls
          /\ up' = SlabFailureAborts(up)
       \/ /\ Len(up.cur) = up.size
          /\ calls' = IF Recorded(up)
                      THEN Append(calls, Call("UploadSlab", up.i, "ok"))
                      ELSE calls
          /\ up' = IF Recorded(up)
                   THEN [up EXCEPT !.pc = "loop", !.i = @ + 1,
                                   !.rem = @ - MaxSlabSize(up.m),
                                   !.slabs = Append(@, UploadedSlab(up))]
                   ELSE [up EXCEPT !.pc = "loop",
                                   !.rem = @ - MaxSlabSize(up.m)]

\* object.SplitSlabs(slabs, lengths): the slab sequence cut into one
\* sub-sequence of slices per length, the i-th covering the bytes
\* [sum of lengths before i, + lengths[i]) of the slabs' concatenated bytes
SplitSlabs(slabs, lengths) ==
    LET slabStart(j) == SumSeq([x \in 1..(j - 1) |-> Len(slabs[x].data)])
        fileStart(i) == SumSeq([x \in 1..(i - 1) |-> lengths[x]])
        piece(i, j) ==
            LET from == Max(fileStart(i), slabStart(j))
                to == Min(fileStart(i) + lengths[i],
                          slabStart(j) + Len(slabs[j].data))
            IN [slab |-> slabs[j], offset |-> from - slabStart(j),
                length |-> to - from]
    IN [i \in 1..Len(lengths) |->
           SelectSeq([j \in 1..Len(slabs) |-> piece(i, j)],
                     LAMBDA sl : sl.length > 0)]

\* line 282: the split reads lengths while the producer may still append
UploadSplit ==
    /\ up.pc = "split"
    /\ UNCHANGED <<contracts, height, store, outFile, calls, sel, dl, prod, pipe, form>>
    /\ up' = [up EXCEPT !.pc = "add", !.addIdx = 0,
                        !.objs = SplitSlabs(up.slabs, prod.lengths)]

\* line 284: the key of the i-th file's object (i from 1); the variant that
\* takes the first file for every object is used to test claims
FirstFileKey(files, i) == Base(files[1].path)
ObjectKey(files, i) == Base(files[i].path)

\* line 287: Slabs: objs[i] (i from 0); the variant that takes the first
\* sub-sequence for every object is used to test claims
FirstSlices(objs, i) == objs[1]
SlicesOf(objs, i) == objs[i + 1]

\* the object store after add(key, object)
Put(st, key, obj) ==
    [k \in DOMAIN st \cup {key} |-> IF k = key THEN obj ELSE st[k]]

\* lines 291-293: what a failed AddObject leaves; the variant that goes on
\* with the next file is used to test claims
AddFailureSkips(u, i) == [u EXCEPT !.addIdx = i + 1]
AddFailureAborts(u, i) ==
    [u EXCEPT !.pc = "done", !.result = "err_add", !.errIdx = i]

\* lines 283-294: register the object of file addIdx; objs[i], lengths[i] and
\* checksums[i] panic when the slice read is too short
UploadAdd ==
    /\ up.pc = "add"
    /\ UNCHANGED <<contracts, height, outFile, sel, dl, prod, pipe, form>>
    /\ LET i == up.addIdx IN
       IF i = Len(up.files)
       THEN /\ up' = UploadEnds("ok")
            /\ UNCHANGED <<store, calls>>
       ELSE IF i >= Len(up.objs)
       THEN /\ up' = UploadEnds("panic")
            /\ UNCHANGED <<store, calls>>
       ELSE LET key == ObjectKey(up.files, i + 1) IN
            \E ok \in BOOLEAN :
            /\ calls' = Append(calls, Call("AddObject", i, key))
            /\ store' = IF ok THEN Put(store, key, SlicesOf(up.objs, i))
                        ELSE store
            /\ LET added == [up EXCEPT !.adds = Append(@,
                                [key |-> key, slices |-> SlicesOf(up.objs, i),
                                 file |-> i, ok |-> ok])]
               IN up' = IF i >= Len(prod.lengths) \/ i >= Len(prod.checksums)
                        THEN [added EXCEPT !.pc = "done", !.result = "panic"]
                        ELSE IF ~ok
                        THEN AddFailureAborts(added, i)
                        ELSE [added EXCEPT !.addIdx = i + 1]

UploadFiles ==
    \/ UploadStat \/ UploadSelect \/ UploadPrepare \/ UploadTip
    \/ UploadLoop \/ UploadRead \/ UploadSlabReturns \/ UploadSplit
    \/ UploadAdd

\* the chain grows; the upload reads the height at lines 135 and 256 and the
\* download at line 308: the model lets it grow between the two jobs
NextHeight(h) == IF h = 100 THEN 150 ELSE 151

AdvanceHeight ==
    /\ up.pc = "done" /\ up.result = "ok" /\ dl.pc = "idle"
    /\ height < 151
    /\ height' = NextHeight(height)
    /\ UNCHANGED <<contracts, store, outFile, calls, sel, dl, upload, form>>

\* ------------------------------------------------------------- formCmd
\* contracts.go. keys are the command's arguments; attempts the calls of
\* formContract made, each with the argument index (0-based) of its
\* iteration, the host key passed and the outcome
NoForm == [pc |-> "idle", keys |-> <<>>, i |-> 0, attempts |-> <<>>,
           result |-> "none"]

\* hostKey.UnmarshalText: the texts of the model's host keys parse to their
\* key, every other text fails
ParseHostKey(text) ==
    IF text \in Hosts THEN [ok |-> TRUE, key |-> text]
    ELSE [ok |-> FALSE, key |-> ""]

\* line 89: the text parsed in iteration i (from 0) is hostKeys[0], not the
\* argument of the iteration
ParsedArg(hostKeys, i) == hostKeys[1]

\* the --duration flag in blocks (parseBlockDurStr of "1w")
FormDuration == 1008

\* lines 105-166: what formContract returns: the id of a contract formed and
\* added to renterd, an error from a step before or in the formation, or an
\* error from AddContract after the contract was formed with the host
FormOutcomes == {"ok", "err_form", "err_add"}

\* lines 161-165: the contract renterd holds after AddContract: with the
\* host, ending at tip.Height + duration (line 139); its id, window and
\* funds come from the formation
FormedContract(cs, hostPub, tip, duration) ==
    [id |-> Len(cs) + 1, host |-> hostPub, endHeight |-> tip + duration,
     windowStart |-> tip + duration, funds |-> 1]

\* lines 66-82: the flags are parsed and the arguments counted
FormStart ==
    /\ form.pc = "start"
    /\ UNCHANGED <<contracts, height, store, outFile, calls, sel, dl, upload>>
    /\ \/ \E r \in {"fatal_usage", "fatal_duration"} :
             form' = [form EXCEPT !.pc = "done", !.result = r]
       \/ form' = IF Len(form.keys) = 0
                  THEN [form EXCEPT !.pc = "done", !.result = "fatal_nokeys"]
                  ELSE [form EXCEPT !.pc = "loop", !.i = 0]

\* lines 84-99: one iteration of the loop over the arguments
FormAttempt ==
    /\ form.pc = "loop"
    /\ form.i < Len(form.keys)
    /\ UNCHANGED <<height, store, outFile, calls, sel, dl, upload>>
    /\ LET parsed == ParseHostKey(ParsedArg(form.keys, form.i)) IN
       IF ~parsed.ok
       THEN /\ form' = [form EXCEPT !.pc = "done", !.result = "fatal_parse"]
            /\ UNCHANGED contracts
       ELSE \E out \in FormOutcomes :
            /\ form' = [form EXCEPT !.i = @ + 1,
                            !.attempts = Append(@, [arg |-> form.i,
                                key |-> parsed.key, out |-> out])]
            /\ contracts' = IF out = "ok"
                            THEN Append(contracts,
                                     FormedContract(contracts, parsed.key,
                                                    height, FormDuration))
                            ELSE contracts

\* line 100: the loop is over and the command returns
FormReturns ==
    /\ form.pc = "loop"
    /\ form.i = Len(form.keys)
    /\ UNCHANGED <<contracts, height, store, outFile, calls, sel, dl, upload>>
    /\ form' = [form EXCEPT !.pc = "done", !.result = "ok"]

FormCmd == FormStart \/ FormAttempt \/ FormReturns

\* ------------------------------------------------------- specifications
ContractRecords(id) ==
    [id : {id}, host : {HostOf(id)}, endHeight : EndHeights,
     windowStart : WindowStarts, funds : FundValues]

\* every listing of k contracts with ids 1..k
Listings(k) ==
    {l \in [1..k -> UNION {ContractRecords(id) : id \in 1..k}] :
        \A i \in 1..k : l[i].id = i}

InitSelect ==
    /\ \E k \in 0..NumContracts : contracts \in Listings(k)
    /\ height \in Heights
    /\ sel = NoSel
    /\ store = <<>>
    /\ outFile = NoFile
    /\ calls = <<>>
    /\ form = NoForm
    /\ dl = NoDownload
    /\ up = NoUpload /\ prod = NoProducer /\ pipe = NoPipe

NextSelect == GetUsableContracts

SpecSelect == InitSelect /\ [][NextSelect]_vars

\* -------- the download job alone, against any stored object
MaxSlabs == 2

ShardLists == {<<"h1", "h2">>, <<"h2", "h1", "h3">>, <<"h1", "h1">>}

\* a slab of the stored object: the i-th slab holds the bytes <<i,1>>, <<i,2>>
StoredSlices(i) ==
    {[slab |-> [minShards |-> m, shards |-> sh,
                data |-> <<<<i, 1>>, <<i, 2>>>>],
      offset |-> 0, length |-> 2] : m \in 1..2, sh \in ShardLists}

StoredObjects ==
    UNION {{o \in [1..k -> UNION {StoredSlices(i) : i \in 1..k}] :
               \A i \in 1..k : o[i] \in StoredSlices(i)} : k \in 1..MaxSlabs}

\* the listed contracts at height 150: expired, inside the margin, or live;
\* the second contract may be with the first one's host
DlContractRecords(id) ==
    {c \in [id : {id}, host : {HostOf(id), HostOf(IF id = 2 THEN 1 ELSE id)},
            endHeight : EndHeights, windowStart : {294, 295}, funds : {1}] :
        c.endHeight = 100 => c.windowStart = 295}

DlListings(k) ==
    {l \in [1..k -> UNION {DlContractRecords(id) : id \in 1..k}] :
        \A i \in 1..k : l[i].id = i}

OldFile == [exists |-> TRUE, bytes |-> <<<<0, 0>>>>]

InitDownload ==
    /\ \E k \in 0..NumContracts : contracts \in DlListings(k)
    /\ height = 150
    /\ sel = NoSel
    /\ \E o \in StoredObjects : store = [k \in {"a"} |-> o]
    /\ outFile = OldFile
    /\ calls = <<>>
    /\ form = NoForm
    /\ dl = NoDownload
    /\ up = NoUpload /\ prod = NoProducer /\ pipe = NoPipe

NextDownload == DownloadFile

SpecDownload == InitDownload /\ [][NextDownload]_vars

\* -------- a selection and then a download against the same directory
PruneObject ==
    <<[slab |-> [minShards |-> 1, shards |-> <<"h2", "h1", "h3">>,
                 data |-> <<<<1, 1>>, <<1, 2>>>>],
       offset |-> 0, length |-> 2]>>

InitPrune ==
    /\ \E k \in 0..NumContracts : contracts \in DlListings(k)
    /\ height = 150
    /\ sel = NoSel
    /\ store = [k \in {"a"} |-> PruneObject]
    /\ outFile = OldFile
    /\ calls = <<>>
    /\ form = NoForm
    /\ dl = NoDownload
    /\ up = NoUpload /\ prod = NoProducer /\ pipe = NoPipe

NextPrune ==
    \/ GetUsableContracts
    \/ (sel.status # "none" /\ DownloadFile)

SpecPrune == InitPrune /\ [][NextPrune]_vars

\* -------- an upload job followed by a download job

MinShardsValues == {1, 2}
TotalShardsValues == {1, 2}
JobContractIds == {1, 2}

\* the input paths: every file in a directory of its own, base name a or b
DirOf(i) == IF i = 1 THEN "d1" ELSE IF i = 2 THEN "d2" ELSE "d3"

InputFiles ==
    UNION {{f \in [1..k -> [path : {"d1", "d2", "d3"} \X {"a", "b"},
                            len : 0..MaxFileLen]] :
              /\ f[1].path[2] = "a"
              /\ \A i \in 1..k : f[i].path[1] = DirOf(i)
              /\ \A i \in 3..k : f[i].path[2] = "b"}
           : k \in 1..MaxFiles}

\* the contracts of the job are live at height 150 and inside the margin of
\* the proof window at 151
JobContractRecords(id) ==
    [id : {id}, host : {HostOf(id)}, endHeight : {400},
     windowStart : {295}, funds : {1}]

JobListings ==
    UNION {{l \in [1..k -> UNION {JobContractRecords(id) : id \in 1..k}] :
               \A i \in 1..k : l[i].id = i}
           : k \in {0} \cup JobContractIds}

Init ==
    /\ contracts \in JobListings
    /\ height = 150
    /\ store = <<>>
    /\ outFile = OldFile
    /\ calls = <<>>
    /\ form = NoForm
    /\ sel = NoSel
    /\ dl = NoDownload
    /\ \E f \in InputFiles : \E m \in MinShardsValues :
       \E n \in TotalShardsValues :
          up = [NoUpload EXCEPT !.pc = "start", !.files = f, !.m = m, !.n = n]
    /\ prod = NoProducer
    /\ pipe = NoPipe

\* the download of a key once the upload has succeeded
DownloadAfterUpload == up.result = "ok" /\ DownloadFile

Next ==
    \/ UploadFiles
    \/ Producer
    \/ AdvanceHeight
    \/ DownloadAfterUpload

Spec == Init /\ [][Next]_vars

\* -------- the selection and a download on listings with contracts whose
\* proof window starts below the margin (NewWindowStart < 144) or above it
WrapWindowStarts == {100, 295}
WrapHeights == {50, 151}

WrapContractRecords(id) ==
    [id : {id}, host : {HostOf(id)}, endHeight : {400},
     windowStart : WrapWindowStarts, funds : {1}]

WrapListings(k) ==
    {l \in [1..k -> UNION {WrapContractRecords(id) : id \in 1..k}] :
        \A i \in 1..k : l[i].id = i}

InitWrap ==
    /\ \E k \in 1..NumContracts : contracts \in WrapListings(k)
    /\ height \in WrapHeights
    /\ sel = NoSel
    /\ store = [k \in {"a"} |-> PruneObject]
    /\ outFile = OldFile
    /\ calls = <<>>
    /\ form = NoForm
    /\ dl = NoDownload
    /\ up = NoUpload /\ prod = NoProducer /\ pipe = NoPipe

SpecWrap == InitWrap /\ [][NextPrune]_vars

\* -------- the upload job in a process that stays alive after uploadFiles
\* has returned, so that the producer task goes on for as long as it can
LeakFiles == {f \in InputFiles : \A i \in 1..Len(f) : f[i].path[2] = "a"}

InitLeak ==
    /\ contracts \in JobListings
    /\ height = 150
    /\ store = <<>>
    /\ outFile = OldFile
    /\ calls = <<>>
    /\ form = NoForm
    /\ sel = NoSel
    /\ dl = NoDownload
    /\ \E f \in LeakFiles : \E m \in MinShardsValues :
          up = [NoUpload EXCEPT !.pc = "start", !.files = f, !.m = m,
                                !.n = 1, !.lingers = TRUE]
    /\ prod = NoProducer
    /\ pipe = NoPipe

NextLeak == UploadFiles \/ Producer

SpecLeak == InitLeak /\ [][NextLeak]_vars

\* -------- the upload job while the chain grows: a block may arrive between
\* the height query of the selection (line 135) and the one before the slab
\* loop (line 256)
ChainGrows ==
    /\ up.pc \in {"prepare", "tip"}
    /\ height < 151
    /\ height' = NextHeight(height)
    /\ UNCHANGED <<contracts, store, outFile, calls, sel, dl, upload, form>>

NextTip == UploadFiles \/ Producer \/ ChainGrows

SpecTip == Init /\ [][NextTip]_vars

\* -------- the form command with up to MaxHostKeys arguments, each the
\* text of a host key or a text that does not parse
MaxHostKeys == 3
HostKeyTexts == {"h1", "h2", "zz"}

HostKeyArgs ==
    UNION {[1..k -> HostKeyTexts] : k \in 0..MaxHostKeys}

InitForm ==
    /\ contracts = <<>>
    /\ height = 150
    /\ store = <<>>
    /\ outFile = NoFile
    /\ calls = <<>>
    /\ sel = NoSel
    /\ dl = NoDownload
    /\ up = NoUpload /\ prod = NoProducer /\ pipe = NoPipe
    /\ \E keys \in HostKeyArgs :
          form = [NoForm EXCEPT !.pc = "start", !.keys = keys]

NextForm == FormCmd

SpecForm == InitForm /\ [][NextForm]_vars

\* -------- the jobs with every accepted value of the shard counts, under
\* fair scheduling of the two tasks of the upload and of the download
ShardCounts == {0, 1, 2}

InitTerm ==
    /\ contracts \in JobListings
    /\ height = 150
    /\ store = <<>>
    /\ outFile = OldFile
    /\ calls = <<>>
    /\ form = NoForm
    /\ sel = NoSel
    /\ dl = NoDownload
    /\ \E f \in InputFiles : \E m \in ShardCounts : \E n \in ShardCounts :
          /\ up = [NoUpload EXCEPT !.pc = "start", !.files = f, !.m = m,
                                   !.n = n]
    /\ prod = NoProducer
    /\ pipe = NoPipe

SpecTerm ==
    /\ InitTerm /\ [][Next]_vars
    /\ WF_vars(UploadFiles) /\ WF_vars(Producer)
    /\ WF_vars(DownloadAfterUpload)

\* ----------------------------------------------------------------- claims
\* the contract of the listing that a returned handle refers to
ListedContract(listing, id) == CHOOSE c \in Range(listing) : c.id = id

\* the number of listed contracts that pass the liveness filter
PassingCount(listing, h) ==
    Cardinality({i \in 1..Len(listing) : PassesFilter(listing[i], h)})

\* C1: getUsableContracts never returns a contract with endHeight < h, nor
\* one with h >= proofWindowStart - 144 computed over the integers, nor one
\* whose renter valid-proof-output value is zero.
C1_NeverReturnsUnusable ==
    sel.status = "ok" =>
        \A i \in 1..Len(sel.list) :
            LET c == ListedContract(sel.listing, sel.list[i].id) IN
            /\ ~(c.endHeight < sel.h)
            /\ ~(sel.h >= c.windowStart - ProofWindowMargin)
            /\ c.funds # 0

\* every host lookup made for a surviving contract succeeded and found an
\* announcement
LookupsSucceed(s) ==
    \A c \in Range(s.listing) :
        PassesFilter(c, s.h) => s.hostRes[c.id].ok /\ s.hostRes[c.id].ann # <<>>

\* C2 as stated: whatever the host lookups return, getUsableContracts
\* returns an error iff fewer than required contracts pass the filter.
C2_ErrorIffTooFew_AnyLookup ==
    (sel.status \notin {"none", "err_contracts", "err_tip"}) =>
        (sel.status \in {"err_host", "err_count"}
            <=> PassingCount(sel.listing, sel.h) < sel.required)

\* C2 amended: when the listing, the height query and every host lookup
\* succeed, getUsableContracts returns an error iff fewer than required
\* contracts pass the filter; when a lookup fails it returns an error (and
\* panics on a host without announcements) whatever the count is.
C2_ErrorIffTooFew_WhenCallsSucceed ==
    (sel.status \notin {"none", "err_contracts", "err_tip"}) =>
        /\ LookupsSucceed(sel) =>
              /\ sel.status \in {"ok", "err_count"}
              /\ sel.status = "err_count"
                    <=> PassingCount(sel.listing, sel.h) < sel.required
        /\ ~LookupsSucceed(sel) => sel.status \in {"err_host", "panic"}

\* C2 witness: a call that failed only for the count, one contract short
C2_Witness ==
    /\ sel.status = "err_count"
    /\ PassingCount(sel.listing, sel.h) >= 1
    /\ sel.required = PassingCount(sel.listing, sel.h) + 1

\* ------------------------------------------------ claims on downloadFile
\* the shards of a slice whose host has a contract that passes the filter
LiveShardCount(slice, listing, h) ==
    Cardinality({j \in 1..Len(slice.slab.shards) :
        \E c \in Range(listing) :
            c.host = slice.slab.shards[j] /\ PassesFilter(c, h)})

SomeSlabShort(d) ==
    \E i \in 1..Len(d.obj) :
        LiveShardCount(d.obj[i], d.listing, d.h) < d.obj[i].slab.minShards

C4_DryRunNoWrites ==
    dl.dryRun =>
        /\ outFile = OldFile
        /\ CallsOf("Create") = <<>>
        /\ CallsOf("DownloadSlab") = <<>>
        /\ CallsOf("Sync") = <<>>
        /\ dl.result = "ok" =>
              /\ Len(dl.docs) = Len(dl.obj)
              /\ \A i \in 1..Len(dl.obj) :
                    /\ dl.docs[i].slab = dl.obj[i]
                    /\ dl.docs[i].contracts = dl.plan
        /\ dl.result # "ok" => dl.docs = <<>>

\* C4 witness: a successful dry run of an object of two slabs
C4_Witness ==
    /\ dl.dryRun /\ dl.result = "ok"
    /\ Len(dl.obj) = 2 /\ Len(dl.docs) = 2
    /\ dl.plan # <<>>

\* C11: when the plan fails because a slab has fewer resolvable shards
\* than its minShards, the error returned names the index of that slab, the
\* first such slab in object order.
C11_ShardsErrorNamesSlab ==
    dl.result = "err_shards" =>
        /\ dl.failedSlab \in 0..(Len(dl.obj) - 1)
        /\ dl.errSlab = dl.failedSlab

\* the live map of the download: host key -> contract id
LiveMap == BuildHostContracts(dl.listing, dl.h, {}, BuildStart).map

\* C12: the plan holds at most one entry per host key across all slabs,
\* the host directory is queried at most once per host key, and every
\* entry's host key has a contract in the live map with the entry's id.
C12_PlanOnePerHost ==
    LET lookups == CallsOf("Host") IN
    /\ \A i, j \in 1..Len(dl.plan) :
          i # j => dl.plan[i].host # dl.plan[j].host
    /\ \A i, j \in 1..Len(lookups) : i # j => lookups[i].s # lookups[j].s
    /\ \A i \in 1..Len(dl.plan) :
          /\ dl.plan[i].host \in DOMAIN LiveMap
          /\ LiveMap[dl.plan[i].host] = dl.plan[i].id
    /\ Len(dl.plan) <= Len(lookups)

\* C12 witness: two slabs on the same two hosts, one of them twice in a
\* slab, resolved to a plan of two entries
C12_Witness ==
    /\ dl.pc = "resolved" /\ Len(dl.obj) = 2 /\ Len(dl.plan) = 2
    /\ dl.obj[1].slab.shards = <<"h1", "h2">>
    /\ dl.obj[2].slab.shards = <<"h2", "h1", "h3">>
    /\ Len(CallsOf("Host")) = 2

\* ------------------------------------- claims on selection and download
\* the selection and the download fetched the listing and the height
SelRan == sel.status \notin {"none", "err_contracts", "err_tip"}

DlRan == dl.pc # "idle"
         /\ dl.result \notin {"err_object", "err_contracts", "err_tip"}

SameInputs == sel.listing = dl.listing /\ sel.h = dl.h

\* the selection visited the whole listing
ScanComplete == sel.status \in {"ok", "err_count"}

PassingHosts(listing, h) ==
    {c.host : c \in {x \in Range(listing) : PassesFilter(x, h)}}

\* the contracts of a listing with height > endHeight
ExpiredIds(listing, h) ==
    {c.id : c \in {x \in Range(listing) : h > x.endHeight}}

\* C13 as stated: for the same contract set and height the hosts of the
\* download's live map are the hosts of the contracts passing the
\* selection's filter, and both operations issue the same deletes.
C13_SameFilter_SameDeletes ==
    (SelRan /\ DlRan /\ SameInputs) =>
        /\ DOMAIN dl.live = PassingHosts(sel.listing, sel.h)
        /\ Range(sel.deletes) = Range(dl.deletes)

\* C13 amended: for the same contract set and height the hosts of the
\* download's live map are the hosts of the contracts passing the
\* selection's filter (and of the contracts a successful selection
\* returns); the selection's deletes are among the download's, and they are
\* the same when the selection visited the whole listing.
C13_SameFilter_DeletesWhenScanned ==
    (SelRan /\ DlRan /\ SameInputs) =>
        /\ DOMAIN dl.live = PassingHosts(sel.listing, sel.h)
        /\ sel.status = "ok" => {e.host : e \in Range(sel.list)} = DOMAIN dl.live
        /\ Range(sel.deletes) \subseteq Range(dl.deletes)
        /\ ScanComplete => sel.deletes = dl.deletes

\* C13 witness: both ran on a listing with an expired and a live contract
C13_Witness ==
    /\ SelRan /\ DlRan /\ SameInputs
    /\ sel.status = "ok" /\ sel.deletes # <<>> /\ dl.deletes # <<>>
    /\ DOMAIN dl.live # {}

\* the selection returned what it returns when every delete succeeds
SelectionAsIfDeleted ==
    \E o \in ScanOutcomes(sel.listing, sel.h, sel.required,
                          {c.id : c \in Range(sel.listing)}, sel.hostRes) :
        /\ o.status = sel.status /\ o.list = sel.list
        /\ o.deletes = sel.deletes /\ o.lookups = sel.lookups
        /\ o.hostRes = sel.hostRes

\* the download built the map it builds when every delete succeeds
DownloadAsIfDeleted ==
    LET hc == BuildHostContracts(dl.listing, dl.h,
                  {c.id : c \in Range(dl.listing)}, BuildStart) IN
    /\ hc.map = dl.live /\ hc.deletes = dl.deletes
    /\ dl.result # "err_delete"

\* C14 as stated: selection and download issue a delete for exactly the
\* contracts with height > endHeight, and their result does not depend on
\* what the deletes return.
C14_DeletesExactlyExpired ==
    /\ SelRan => /\ Range(sel.deletes) = ExpiredIds(sel.listing, sel.h)
                 /\ SelectionAsIfDeleted
    /\ DlRan => /\ Range(dl.deletes) = ExpiredIds(dl.listing, dl.h)
                /\ DownloadAsIfDeleted

\* C14 amended: a delete is issued only for contracts with height >
\* endHeight, once each, and for all of them when the operation visits the
\* whole listing (always in the download; in the selection unless a host
\* lookup ends it early); the result does not depend on what the deletes
\* return.
C14_DeletesOnlyExpired ==
    /\ SelRan => /\ Range(sel.deletes) \subseteq ExpiredIds(sel.listing, sel.h)
                 /\ Cardinality(Range(sel.deletes)) = Len(sel.deletes)
                 /\ ScanComplete =>
                       Range(sel.deletes) = ExpiredIds(sel.listing, sel.h)
                 /\ SelectionAsIfDeleted
    /\ DlRan => /\ Range(dl.deletes) = ExpiredIds(dl.listing, dl.h)
                /\ Cardinality(Range(dl.deletes)) = Len(dl.deletes)
                /\ DownloadAsIfDeleted

\* C14 witness: the selection succeeded and the download resolved its plan
\* although the delete each of them issued had failed
C14_Witness ==
    /\ sel.status = "ok" /\ sel.deletes # <<>> /\ sel.delOk = {}
    /\ dl.pc = "resolved" /\ dl.deletes # <<>> /\ dl.delOk = {}

\* C15: a contract is usable only while height < endHeight strictly:
\* getUsableContracts never returns a contract whose endHeight is the
\* current height or below it.
C15_UsableOnlyBeforeEnd ==
    sel.status = "ok" =>
        \A i \in 1..Len(sel.list) :
            sel.h < ListedContract(sel.listing, sel.list[i].id).endHeight

RECURSIVE Concat(_)
Concat(ss) == IF ss = <<>> THEN <<>> ELSE Head(ss) \o Concat(Tail(ss))

\* the bytes a sequence of slices stands for
SlicesBytes(slices) == Concat([j \in 1..Len(slices) |-> SliceBytes(slices[j])])

\* the destination file was created by this download
Created == /\ ~dl.dryRun
           /\ \/ dl.pc = "stream"
              \/ dl.result \in {"ok", "err_sync", "err_download", "err_hash"}

\* the slab downloads made so far are those of slabs 0, 1, ... in order,
\* and only the last of them can have failed
SlabCallsInOrder ==
    LET dcalls == CallsOf("DownloadSlab") IN
    /\ \A i \in 1..Len(dcalls) : dcalls[i].n = i - 1
    /\ Len(dcalls) <= Len(dl.obj)
    /\ Len(dcalls) = IF dl.result = "err_download" THEN dl.next + 1
                     ELSE dl.next
    /\ dl.result = "err_download" => dl.errSlab = dl.next
    /\ (~dl.dryRun /\ dl.result \in {"ok", "err_sync"}) =>
          Len(dcalls) = Len(dl.obj)

\* the checksum returned is the digest of the file, which holds the bytes
\* of all slabs
ChecksumOfFile ==
    dl.result = "ok" /\ ~dl.dryRun =>
        /\ dl.checksum = Digest(dl.algo, outFile.bytes)
        /\ outFile.bytes = SlicesBytes(dl.obj)

\* C16 as stated: one slab download per slab in order, each after the
\* previous one succeeded; at every point the bytes in the destination file
\* are the bytes fed to the digest; the checksum is the digest of the bytes
\* written for all slabs.
C16_FileEqualsDigestAlways ==
    /\ SlabCallsInOrder
    /\ Created => outFile.bytes = dl.hashed
    /\ ChecksumOfFile

\* C16 amended: as stated, except that the file and the digest hold the
\* same bytes only while no slab download has failed; after a failed one
\* the digest has received a prefix of what the file holds, and the job
\* returns an error.
C16_FileEqualsDigestUntilFailure ==
    /\ SlabCallsInOrder
    /\ Created =>
          /\ dl.result # "err_download" => outFile.bytes = dl.hashed
          /\ Len(dl.hashed) <= Len(outFile.bytes)
          /\ dl.hashed = SubSeq(outFile.bytes, 1, Len(dl.hashed))
    /\ ChecksumOfFile

\* C16 witness: a download of two slabs that returned its checksum
C16_Witness ==
    /\ dl.result = "ok" /\ ~dl.dryRun /\ Len(dl.obj) = 2
    /\ Len(outFile.bytes) = 4 /\ Len(CallsOf("DownloadSlab")) = 2

\* ------------------------------------------------- claims on uploadFiles
FileLens(files) == [i \in 1..Len(files) |-> files[i].len]

TotalLen(files) == SumSeq(FileLens(files))

CeilDiv(a, b) == (a + b - 1) \div b

\* the slab loop has run to its end
LoopDone == up.pc \in {"split", "add"} \/ up.result \in {"ok", "err_add"}

\* the index of the last input file with the given base name, 0 if none
LastWithBase(files, key) ==
    IF \E i \in 1..Len(files) : Base(files[i].path) = key
    THEN CHOOSE i \in 1..Len(files) :
            /\ Base(files[i].path) = key
            /\ \A j \in (i + 1)..Len(files) : Base(files[j].path) # key
    ELSE 0

\* a download returned the bytes and the upload-time digest of file i
RoundTrips(i) ==
    /\ outFile.bytes = FileBytes(up.files, i)
    /\ ToLower(dl.algo) = ToLower(up.algo) =>
          /\ dl.checksum = prod.checksums[i]
          /\ dl.checksum = Digest(up.algo, FileBytes(up.files, i))

C6_SplitCoversFiles ==
    /\ \A x \in 1..Len(up.adds) :
          /\ up.adds[x].file = x - 1
          /\ SlicesBytes(up.adds[x].slices) = FileBytes(up.files, x)
    /\ up.result = "ok" => Len(up.adds) = Len(up.files)

\* C6 witness: two files registered, the first ending and the second
\* starting in the middle of the first slab
C6_Witness ==
    /\ up.result = "ok" /\ Len(up.adds) = 2
    /\ up.files[1].len = 1 /\ up.files[2].len = 2 /\ up.m = 1
    /\ Len(up.adds[2].slices) = 2
    /\ up.adds[1].slices[1].slab = up.adds[2].slices[1].slab

\* C7: the slab loop issues ceil(L / (m * sectorSize)) slab uploads; every
\* window is m * sectorSize long except possibly the last, and the windows
\* sum to L (never more while the loop runs).
C7_SlabWindows ==
    LET L == TotalLen(up.files)
        W == up.m * SectorSize
        wins == up.windows
    IN  up.pc \notin {"idle", "start", "select", "prepare", "tip"} =>
        /\ SumSeq(wins) <= L
        /\ \A j \in 1..(Len(wins) - 1) : wins[j] = W
        /\ \A j \in 1..Len(wins) : wins[j] >= 1 /\ wins[j] <= W
        /\ \A j \in 1..Len(up.slabs) : Len(up.slabs[j].data) = wins[j]
        /\ LoopDone =>
              /\ Len(wins) = CeilDiv(L, W)
              /\ SumSeq(wins) = L
              /\ Len(up.slabs) = Len(wins)
              /\ Len(CallsOf("UploadSlab")) = Len(wins)

\* C7 witness: L = 3, m = 1: two uploads, the last window shorter
C7_Witness ==
    /\ LoopDone /\ TotalLen(up.files) = 3 /\ up.m = 1
    /\ up.windows = <<2, 1>>

\* the packed stream: the input files one after the other
Packed == Concat([i \in 1..Len(up.files) |-> FileBytes(up.files, i)])

\* the bytes the consumer has taken from the pipe
Consumed ==
    Concat([j \in 1..Len(up.slabs) |-> up.slabs[j].data])
    \o (IF Len(up.windows) > Len(up.slabs) THEN up.cur ELSE <<>>)

\* C17: the hand-off is synchronous: what the producer has written and the
\* consumer has not yet read is the rest of the one write in flight, never
\* more than one chunk; the producer does not get past a write before the
\* consumer has read all of it, and the consumer has read nothing that was
\* not written.
C17_SynchronousHandOff ==
    /\ prod.written = Len(Consumed) + Len(pipe.buf)
    /\ Len(pipe.buf) <= CopyChunk
    /\ Consumed \o pipe.buf = SubSeq(Packed, 1, prod.written)
    /\ pipe.buf # <<>> =>
          /\ prod.pc = "copy"
          /\ Len(prod.lengths) = prod.file - 1
          /\ ~pipe.closed

\* C17 witness: a write of two bytes of which the window of the first slab
\* took one; the producer waits with the other
C17_Witness ==
    /\ up.pc = "read" /\ Len(up.cur) = up.size /\ up.size = 2
    /\ Len(pipe.buf) = 1 /\ prod.written = 3 /\ prod.pc = "copy"

\* C18: every job terminates: the upload returns (or the process ends), and
\* a download that has started returns, for every accepted m and n.
C18_JobsTerminate ==
    /\ <>(up.pc = "done")
    /\ (dl.pc # "idle") ~> (dl.pc = "done")

\* C19: whenever the main task splits the slabs or registers an object, the
\* producer has recorded the length and the checksum of every input file.
C19_ListsCompleteAtSplit ==
    [][(UploadSplit \/ (UploadAdd /\ up.addIdx < Len(up.files)))
          => /\ Len(prod.lengths) = Len(up.files)
             /\ Len(prod.checksums) = Len(up.files)]_vars

\* the contracts of the selection's listing that pass its filter, in listing
\* order, as the records getUsableContracts builds for them
Survivors ==
    LET f == SelectSeq(sel.listing, LAMBDA c : PassesFilter(c, sel.h)) IN
    [i \in 1..Len(f) |-> [id |-> f[i].id, host |-> f[i].host,
                          ip |-> Last(sel.hostRes[f[i].id].ann)]]

\* C20: when getUsableContracts succeeds the list is a permutation of the
\* contracts that passed the filter: as long as their sequence, with the
\* same elements, each once; and every ordering of them is a result the call
\* can return on the same inputs.
C20_ListIsPermutation ==
    sel.status = "ok" =>
        /\ Len(sel.list) = Len(Survivors)
        /\ Range(sel.list) = Range(Survivors)
        /\ \A i, j \in 1..Len(sel.list) :
               i # j => sel.list[i].id # sel.list[j].id
        /\ \A q \in [1..Len(Survivors) -> 1..Len(Survivors)] :
               (\A i, j \in 1..Len(Survivors) : i # j => q[i] # q[j]) =>
                  [sel EXCEPT !.list = [i \in 1..Len(Survivors) |->
                                           Survivors[q[i]]]]
                      \in ScanOutcomes(sel.listing, sel.h, sel.required,
                                       sel.delOk, sel.hostRes)

\* C20 witness: a successful call that returned more contracts than required,
\* in another order than the listing's
C20_Witness ==
    /\ sel.status = "ok"
    /\ Len(sel.list) > sel.required
    /\ Len(sel.list) >= 2
    /\ sel.list # Survivors

\* the upload job made no step past the selection: the producer task was not
\* started, no input file opened, no slab uploaded and no object registered
NothingStarted ==
    /\ prod = NoProducer /\ pipe = NoPipe
    /\ CallsOf("UploadSlab") = <<>> /\ CallsOf("AddObject") = <<>>
    /\ up.slabs = <<>> /\ up.adds = <<>> /\ store = <<>>

\* the selection of the upload job ran on a listing with fewer than n
\* contracts passing the filter
UploadTooFewContracts ==
    /\ dl.pc = "idle"
    /\ sel.status \notin {"none", "err_contracts", "err_tip"}
    /\ PassingCount(sel.listing, sel.h) < up.n

\* C21 as stated: when fewer than n contracts pass the filter, uploadFiles
\* fails with the insufficient-contracts error, with nothing started.
C21_TooFewGivesCountError ==
    UploadTooFewContracts =>
        /\ up.pc = "done" /\ up.result = "err_select"
        /\ sel.status = "err_count"
        /\ NothingStarted

\* C21 amended: when fewer than n contracts pass the filter, uploadFiles
\* fails in the selection with nothing started; the error is the
\* insufficient-contracts one when every host lookup succeeded, and the
\* host-lookup error (or a panic on a host without announcements) otherwise.
C21_TooFewFailsBeforeProducer ==
    UploadTooFewContracts =>
        /\ up.pc = "done" /\ up.result \in {"err_select", "panic"}
        /\ LookupsSucceed(sel) <=> sel.status = "err_count"
        /\ sel.status = "err_count" => up.result = "err_select"
        /\ NothingStarted

\* C21 witness: the job failed for the count, one contract short
C21_Witness ==
    /\ UploadTooFewContracts
    /\ up.result = "err_select" /\ sel.status = "err_count"
    /\ Len(sel.lookups) = 1 /\ up.n = 2

\* the object store an empty store becomes by the successful adds of a list
RECURSIVE RegisteredBy(_)
RegisteredBy(adds) ==
    IF adds = <<>> THEN <<>>
    ELSE LET before == RegisteredBy(SubSeq(adds, 1, Len(adds) - 1))
             a == Last(adds)
         IN IF a.ok THEN Put(before, a.key, a.slices) ELSE before

\* the registration of an object failed
AddFailed == up.adds # <<>> /\ ~Last(up.adds).ok

\* the failed registration is the last step of the job: the adds were made
\* for the files 0..j in order, all but the last succeeded, the store holds
\* what they put and the failed call is the last call of the job
FailedAddIsLast ==
    LET j == Last(up.adds).file IN
    /\ up.pc = "done" /\ dl.pc = "idle"
    /\ Len(up.adds) = j + 1
    /\ \A x \in 1..Len(up.adds) :
          up.adds[x].file = x - 1 /\ (up.adds[x].ok <=> x <= j)
    /\ store = RegisteredBy(up.adds)
    /\ Len(CallsOf("AddObject")) = j + 1
    /\ Last(calls) = Call("AddObject", j, Last(up.adds).key)

BelowMargin(c, h) ==
    c.windowStart < ProofWindowMargin /\ c.funds # 0 /\ ~(h > c.endHeight)

CallPositions(op) == {x \in 1..Len(calls) : calls[x].op = op}

\* the results of a download that failed before or during shard resolution
ResolutionFailures ==
    {"err_object", "err_contracts", "err_tip", "err_host", "err_shards",
     "panic"}

\* C24: a download that is not a dry run and failed in the object lookup,
\* the contract listing, the height query, a host lookup or the minimum-shard
\* check has not created or changed the destination file and has issued no
\* slab download; the file is created only once every slab is resolved.
C24_CreateAfterResolution ==
    /\ (~dl.dryRun /\ dl.result \in ResolutionFailures) =>
          /\ dl.pc = "done"
          /\ outFile = OldFile
          /\ CallsOf("Create") = <<>>
          /\ CallsOf("DownloadSlab") = <<>>
    /\ CallsOf("Create") # <<>> =>
          /\ dl.result \notin ResolutionFailures
          /\ dl.failedSlab = NoIndex
          /\ \A x \in CallPositions("Create") :
                \A y \in CallPositions("Host") : y < x

\* C24 witness: a normal download that failed the minimum-shard check of
\* its second slab, after a host lookup for the first, with the old file
\* still in place
C24_Witness ==
    /\ ~dl.dryRun /\ dl.result = "err_shards" /\ dl.failedSlab = 1
    /\ CallsOf("Host") # <<>> /\ outFile = OldFile

\* C25: a download that fails for an unknown digest algorithm has not
\* created, truncated or written the destination file and has issued no
\* slab download.
C25_UnknownDigestLeavesFile ==
    dl.result = "err_hash" =>
        /\ outFile = OldFile
        /\ CallsOf("Create") = <<>>
        /\ CallsOf("DownloadSlab") = <<>>

\* the base names of the input files (the second component of each path)
BaseNames == {up.files[i].path[2] : i \in 1..Len(up.files)}

SlabFailedWithDataLeft ==
    /\ up.pc = "done" /\ up.result = "err_upload"
    /\ Len(Consumed) < up.total

\* C27: once a slab upload has failed with data left to write, the producer
\* never closes the pipe and never gets past its writes: it has not recorded
\* every file, and when a write of it is pending that write stays pending.
C27_ProducerNeverCloses ==
    /\ [](SlabFailedWithDataLeft =>
            /\ ~pipe.closed
            /\ prod.pc \notin {"close", "finished"}
            /\ Len(prod.lengths) < Len(up.files))
    /\ [][(SlabFailedWithDataLeft /\ pipe.buf # <<>>) =>
             (pipe' = pipe /\ prod' = prod /\ up' = up)]_vars

\* C27 witness: the first slab upload failed before the producer had
\* written anything; the producer then opened the first file, wrote its
\* first chunk and is left with that write pending
C27_Witness ==
    /\ SlabFailedWithDataLeft /\ up.errIdx = 0
    /\ up.cur = <<>> /\ Len(pipe.buf) = CopyChunk
    /\ prod.pc = "copy" /\ prod.written = CopyChunk

\* the ids of the listed contracts with height > endHeight, in listing order
ExpiredInOrder(listing, h) ==
    LET e == SelectSeq(listing, LAMBDA c : h > c.endHeight) IN
    [i \in 1..Len(e) |-> e[i].id]

\* what a download does to the contract and host directories before any
\* transfer: one delete per expired contract, in listing order, the
\* directory left without those whose delete succeeded, and a host lookup
\* for every host of the plan
DirectoryEffects ==
    /\ dl.deletes = ExpiredInOrder(dl.listing, dl.h)
    /\ [i \in 1..Len(CallsOf("DeleteContract")) |->
           CallsOf("DeleteContract")[i].n] = dl.deletes
    /\ contracts = AfterDeletes(dl.listing, dl.deletes, dl.delOk)
    /\ \A i \in 1..Len(dl.plan) :
          \E x \in 1..Len(CallsOf("Host")) :
              CallsOf("Host")[x].s = dl.plan[i].host

\* C28: a dry-run download that gets past the height query issues a delete
\* for every contract with height > endHeight and a host lookup for every
\* planned host, as a normal download does; the same holds of both modes.
C28_DryRunTouchesDirectory ==
    DlRan => DirectoryEffects

\* C28 witness: a dry run that succeeded after a delete that took a
\* contract out of the directory and after a host lookup
C28_Witness ==
    /\ dl.dryRun /\ dl.result = "ok"
    /\ dl.deletes # <<>> /\ Len(contracts) < Len(dl.listing)
    /\ Len(CallsOf("Host")) = 1 /\ Len(dl.plan) = 1
    /\ outFile = OldFile

\* C29: every contract handed to a slab upload passes the liveness filter at
\* the height handed to the same call (the second reading), and all slab
\* uploads of a job are given one contract list and one height.
C29_ContractsLiveAtUploadHeight ==
    CallsOf("UploadSlab") # <<>> =>
        /\ up.contracts = sel.list
        /\ \A i \in 1..Len(up.contracts) :
              PassesFilter(ListedContract(sel.listing, up.contracts[i].id),
                           up.tip)

\* C30: with arguments that are all host keys, the form command makes one
\* formation attempt per argument, the i-th with the i-th key, and a failed
\* attempt does not stop the later ones.
C30_FormsEachHost ==
    (\A x \in 1..Len(form.keys) : form.keys[x] \in Hosts) =>
        /\ \A x \in 1..Len(form.attempts) :
              /\ form.attempts[x].arg = x - 1
              /\ form.attempts[x].key = form.keys[x]
        /\ form.result = "ok" => Len(form.attempts) = Len(form.keys)

\* C8: when the stat of an input file fails in the first loop, the job has
\* returned an error having made no call but the stats: none to the
\* contract directory, the chain height source, the host directory, the
\* slab transport or the object store.
C8_StatFailsBeforeNetwork ==
    CallsOf("Stat") # <<>> /\ up.result = "err_stat" =>
        /\ up.pc = "done"
        /\ \A x \in 1..Len(calls) : calls[x].op = "Stat"
        /\ sel = NoSel /\ store = <<>> /\ up.slabs = <<>> /\ up.adds = <<>>
        /\ prod = NoProducer

\* C8 witness: the second file's stat failed
C8_Witness ==
    /\ up.result = "err_stat" /\ up.errIdx = 1 /\ Len(calls) = 2

\* C9: after a successful upload of k files the object store's add has been
\* called exactly k times, in argument order, the i-th call with the base
\* name of file i and the i-th sub-sequence of the split slabs, and every
\* add came after every slab upload of the packed stream.
C9_ObjectsRegistered ==
    /\ \A x \in CallPositions("AddObject") :
          /\ \A y \in CallPositions("UploadSlab") : y < x
          /\ Len(CallsOf("UploadSlab")) =
                 CeilDiv(TotalLen(up.files), up.m * SectorSize)
    /\ up.result = "ok" =>
          LET k == Len(up.files)
              split == SplitSlabs(up.slabs, FileLens(up.files))
              addCalls == CallsOf("AddObject")
          IN  /\ Len(up.adds) = k /\ Len(addCalls) = k
              /\ \A i \in 1..k :
                    /\ up.adds[i].key = Base(up.files[i].path)
                    /\ up.adds[i].slices = split[i]
                    /\ up.adds[i].ok
                    /\ addCalls[i] = Call("AddObject", i - 1,
                                          Base(up.files[i].path))

\* C9 witness: two files with different base names registered
C9_Witness ==
    /\ up.result = "ok" /\ Len(up.adds) = 2
    /\ up.adds[1].key = "a" /\ up.adds[2].key = "b"
    /\ Len(up.slabs) >= 2

\* C10: once a slab upload has failed the job has returned an error: that
\* call is the last slab upload (the slab is not retried, no later slab is
\* uploaded) and no object is registered.
C10_SlabFailureAborts ==
    \A x \in CallPositions("UploadSlab") :
        calls[x].s = "err" =>
            /\ up.pc = "done" /\ up.result = "err_upload"
            /\ up.errIdx = calls[x].n
            /\ x = Len(calls)
            /\ \A y \in CallPositions("UploadSlab") :
                  y < x => calls[y].n < calls[x].n /\ calls[y].s = "ok"
            /\ CallsOf("AddObject") = <<>> /\ up.adds = <<>>
            /\ store = <<>>

\* C10 witness: the second slab's upload failed after the first succeeded
C10_Witness ==
    /\ up.result = "err_upload" /\ up.errIdx = 1
    /\ Len(up.slabs) = 1 /\ Len(CallsOf("UploadSlab")) = 2

====
